---- MODULE Spec2Model ----
(***************************************************************************)
(* One simulation step of the Barnes-Hut gravity system of bevy-nbody:     *)
(* bounding box of the live bodies, sequential octree build, parallel      *)
(* per-body force / collision traversal, collection of the records.        *)
(*                                                                         *)
(* Numbers.  The program computes in f32.  Here the representable values  *)
(* are the integers: additions, subtractions, products and comparisons of *)
(* representable values are exact, and a result that falls between two    *)
(* representable values (a quotient, the midpoint of a box) is rounded to *)
(* the nearest one, ties to even, as IEEE-754 rounds.  Square roots are   *)
(* never computed: a comparison of a distance is made on the squares, and *)
(* an acceleration is kept as the formal sum of its terms.                *)
(***************************************************************************)
EXTENDS Integers, Sequences, FiniteSets, Bags, TLC

\* ---------------------------------------------------------------- bounds
\* the number of live bodies is at most MaxBodies; NumWorkers threads run
\* the evaluation; the input positions lie on a grid of pitch Pitch
MaxBodies == 3
NumWorkers == 2
Pitch == 8

\* ------------------------------------------------------- program constants
\* THETA = 0.5 as the fraction THETA_NUM / THETA_DEN
THETA_NUM == 1
THETA_DEN == 2

\* --------------------------------------------------------------- inputs
Positions ==
    { <<0, 0, 0>>, <<Pitch, 0, 0>>, <<0, Pitch, Pitch>>,
      <<3 * Pitch, 3 * Pitch, 3 * Pitch>> }
\* (mass, radius) of a body: two bodies of the first kind one pitch apart
\* overlap, one of each kind one pitch apart touch (distance = sum of the
\* radii), two of the second kind never collide
Kinds == { [mass |-> 1, radius |-> Pitch], [mass |-> 2, radius |-> 0] }
Entities == 1..MaxBodies

\* ------------------------------------------------------------ arithmetic
\* n / d for n >= 0, d > 0, rounded to nearest, ties to even
RoundDiv(n, d) ==
    LET q == n \div d
        r == n % d
    IN  IF 2 * r < d THEN q
        ELSE IF 2 * r > d THEN q + 1
        ELSE IF q % 2 = 0 THEN q ELSE q + 1

Max(a, b) == IF a > b THEN a ELSE b

\* Vec3
Vec3(x, y, z) == <<x, y, z>>
ZERO == <<0, 0, 0>>
NaN3 == <<>>
IsNaN3(v) == v = NaN3
VAdd(a, b) == <<a[1] + b[1], a[2] + b[2], a[3] + b[3]>>
VSub(a, b) == <<a[1] - b[1], a[2] - b[2], a[3] - b[3]>>
VScale(a, k) == <<a[1] * k, a[2] * k, a[3] * k>>
VDiv(a, k) ==
    IF k = 0 THEN NaN3
    ELSE <<RoundDiv(a[1], k), RoundDiv(a[2], k), RoundDiv(a[3], k)>>
distance_squared(a, b) ==
    LET d == VSub(a, b) IN d[1] * d[1] + d[2] * d[2] + d[3] * d[3]

\* ------------------------------------------------------------------ BBox3
BBox3_new(p1, p2) ==
    LET lo(i) == IF p1[i] < p2[i] THEN p1[i] ELSE p2[i]
        hi(i) == IF p1[i] < p2[i] THEN p2[i] ELSE p1[i]
    IN  [pmin |-> <<lo(1), lo(2), lo(3)>>, pmax |-> <<hi(1), hi(2), hi(3)>>]

\* min + (max - min) / 2.0 on one axis.  Halving is exact in f32 (only the
\* exponent changes), so (max - min) / 2.0 is the exact half, which may lie
\* between two representable values; the sum is then rounded to the nearest
\* representable value, ties to even.
center1(lo, hi) == RoundDiv(2 * lo + (hi - lo), 2)

center(b) ==
    <<center1(b.pmin[1], b.pmax[1]),
      center1(b.pmin[2], b.pmax[2]),
      center1(b.pmin[3], b.pmax[3])>>

\* a subdivide whose array has the x and y bits of the index exchanged
subdivide_xy_swapped(b) ==
    LET pmid == center(b)
        cx(i) == IF (i \div 2) % 2 = 1 THEN b.pmax[1] ELSE b.pmin[1]
        cy(i) == IF i % 2 = 1 THEN b.pmax[2] ELSE b.pmin[2]
        cz(i) == IF (i \div 4) % 2 = 1 THEN b.pmax[3] ELSE b.pmin[3]
    IN  [i \in 0..7 |-> BBox3_new(<<cx(i), cy(i), cz(i)>>, pmid)]

\* the 8 sub-boxes, indexed 0..7 as the array is
subdivide(b) ==
    LET pmid == center(b)
        cx(i) == IF i % 2 = 1 THEN b.pmax[1] ELSE b.pmin[1]
        cy(i) == IF (i \div 2) % 2 = 1 THEN b.pmax[2] ELSE b.pmin[2]
        cz(i) == IF (i \div 4) % 2 = 1 THEN b.pmax[3] ELSE b.pmin[3]
    IN  [i \in 0..7 |-> BBox3_new(<<cx(i), cy(i), cz(i)>>, pmid)]

quadrant_index_for(b, p) ==
    LET c == center(b)
    IN  (IF p[3] > c[3] THEN 4 ELSE 0)
      + (IF p[2] > c[2] THEN 2 ELSE 0)
      + (IF p[1] > c[1] THEN 1 ELSE 0)

\* an encompass that grows pmax and never lowers pmin
encompass_max_only(b, p) ==
    LET hi(i) == IF p[i] > b.pmax[i] THEN p[i] ELSE b.pmax[i]
    IN  [pmin |-> b.pmin, pmax |-> <<hi(1), hi(2), hi(3)>>]

encompass(b, p) ==
    LET lo(i) == IF p[i] < b.pmin[i] THEN p[i] ELSE b.pmin[i]
        hi(i) == IF p[i] < b.pmin[i] THEN b.pmax[i]
                 ELSE IF p[i] > b.pmax[i] THEN p[i] ELSE b.pmax[i]
    IN  [pmin |-> <<lo(1), lo(2), lo(3)>>, pmax |-> <<hi(1), hi(2), hi(3)>>]

RECURSIVE encompass_all(_, _)
encompass_all(b, points) ==
    IF points = <<>> THEN b
    ELSE encompass_all(encompass(b, Head(points)), Tail(points))

BBox3_from(points) ==
    IF points # <<>>
    THEN encompass_all(BBox3_new(Head(points), Head(points)), Tail(points))
    ELSE BBox3_new(ZERO, ZERO)

contains(b, p) ==
    LET not_contains ==
            \/ b.pmin[1] > p[1] \/ p[1] > b.pmax[1]
            \/ b.pmin[2] > p[2] \/ p[2] > b.pmax[2]
            \/ b.pmin[3] > p[3] \/ p[3] > b.pmax[3]
    IN  ~not_contains

\* ------------------------------------------------------------------ NBody
NBody_new(entity, position, mass, radius) ==
    [entity |-> entity, position |-> position, mass |-> mass, radius |-> radius]

\* Option<NBody>::None
NoBody == NBody_new(0, ZERO, 0, 0)

\* -------------------------------------------------------------- BHTreeNode
\* A tree is a function from paths to nodes: the root is at <<>>, and the
\* node at path p with children = Some has its i-th child at Append(p, i).
\* `children` records whether the field is Some.
BHTreeNode_new(b) ==
    [mass |-> 0, center_of_mass |-> center(b), bounds |-> b,
     children |-> FALSE, body |-> NoBody]

Child(p, i) == Append(p, i)

\* the accumulators of total_mass_and_center_of_mass after the children
\* 0 .. k-1 of the node at p
RECURSIVE kahan_fold(_, _, _)
kahan_fold(t, p, k) ==
    IF k = 0 THEN [total_mass |-> 0, cm |-> ZERO, compensation |-> ZERO]
    ELSE LET acc == kahan_fold(t, p, k - 1)
             node == t[Child(p, k - 1)]
             y == VSub(VScale(node.center_of_mass, node.mass), acc.compensation)
             tt == VAdd(acc.cm, y)
         IN  [total_mass |-> acc.total_mass + node.mass,
              cm |-> tt,
              compensation |-> VSub(VSub(tt, acc.cm), y)]

total_mass_and_center_of_mass(t, p) ==
    LET acc == kahan_fold(t, p, 8)
    IN  [total_mass |-> acc.total_mass, cm |-> VDiv(acc.cm, acc.total_mass)]

\* an update that sets a Leaf and never recomputes a node with children
update_leaf_only(t, p) ==
    IF t[p].body # NoBody
    THEN [t EXCEPT ![p].center_of_mass = t[p].body.position,
                   ![p].mass = t[p].body.mass]
    ELSE t

update(t, p) ==
    IF t[p].body # NoBody
    THEN [t EXCEPT ![p].center_of_mass = t[p].body.position,
                   ![p].mass = t[p].body.mass]
    ELSE IF ~t[p].children THEN t
    ELSE LET r == total_mass_and_center_of_mass(t, p)
         IN  [t EXCEPT ![p].mass = r.total_mass, ![p].center_of_mass = r.cm]

\* self.children = Some(self.subdivide())
node_subdivide(t, p) ==
    LET subbounds == subdivide(t[p].bounds)
    IN  [q \in {Child(p, i) : i \in 0..7} |->
            BHTreeNode_new(subbounds[q[Len(q)]])]
        @@ [t EXCEPT ![p].children = TRUE]

\* a take that leaves the body in the node
take_body_keeps(t, p) == t

\* self.body.take()
take_body(t, p) == [t EXCEPT ![p].body = NoBody]

RECURSIVE insert(_, _, _)
insert(t, p, body) ==
    LET t1 ==
          IF t[p].children
          THEN insert(t, Child(p, quadrant_index_for(t[p].bounds, body.position)),
                      body)
          ELSE IF t[p].body = NoBody
          THEN [t EXCEPT ![p].body = body]
          ELSE LET obody == t[p].body
                   s == take_body(node_subdivide(t, p), p)
               IN  insert(insert(s, p, obody), p, body)
    IN  update(t1, p)

\* The recursion of insert on a Leaf of box b that holds a body at p1 and
\* receives a body at p2 never returns: both bodies fall into the same child
\* at every level, down to a box that subdivides into itself.
RECURSIVE never_separate(_, _, _)
never_separate(b, p1, p2) ==
    LET ix == quadrant_index_for(b, p1)
        sub == subdivide(b)[ix]
    IN  /\ ix = quadrant_index_for(b, p2)
        /\ \/ sub = b
           \/ never_separate(sub, p1, p2)

\* insert(body) at the node at p does not return
RECURSIVE insert_diverges(_, _, _)
insert_diverges(t, p, body) ==
    IF t[p].children
    THEN insert_diverges(t, Child(p, quadrant_index_for(t[p].bounds, body.position)),
                         body)
    ELSE /\ t[p].body # NoBody
         /\ never_separate(t[p].bounds, t[p].body.position, body.position)

\* ------------------------------------------------- calculate_acceleration
\* An acceleration is the formal sum of its terms, a bag: the term [m, d] is
\* the vector  normalize(d) * (G * m / |d|^2).  A term with d = ZERO is not
\* finite (normalize gives NaN) and a term with m = 0 is the zero vector.
Term(m, d) == [m |-> m, d |-> d]
NoAccel == EmptyBag
IsFinite(term) == term.d # ZERO

\* accel = dir * (G * m / dist2), then the three is_finite() guards
AccelOf(m, d) ==
    IF ~IsFinite(Term(m, d)) \/ m = 0 THEN NoAccel ELSE SetToBag({Term(m, d)})

size(node) ==
    LET dim == VSub(node.bounds.pmax, node.bounds.pmin)
    IN  Max(dim[1], Max(dim[2], dim[3]))

\* self.size() / self.center_of_mass.distance(body.position) >= theta, for
\* theta = thn / thd >= 0: x / 0 is +inf for x > 0 and NaN for x = 0, and a
\* comparison with NaN is false
size_over_distance_ge(node, position, thn, thd) ==
    IF IsNaN3(node.center_of_mass) THEN FALSE
    ELSE LET dist2 == distance_squared(node.center_of_mass, position)
             sz == size(node)
         IN  IF dist2 = 0 THEN sz > 0
             ELSE sz * sz * thd * thd >= thn * thn * dist2

\* a Leaf test without the std::ptr::eq guard
leaf_contribution_no_self_test(node, p, body, ref) ==
    LET other == node.body
        dist2 == distance_squared(other.position, body.position)
        radaii == body.radius + other.radius
        radaii2 == radaii * radaii
    IN  IF dist2 > radaii2
        THEN [accel |-> AccelOf(other.mass, VSub(other.position, body.position)),
              collided_with |-> <<>>]
        ELSE [accel |-> NoAccel, collided_with |-> <<body.entity>>]

\* a Leaf test that accelerates at dist2 >= radaii2 and records at <
leaf_contribution_ge(node, p, body, ref) ==
    LET other == node.body
        dist2 == distance_squared(other.position, body.position)
        radaii == body.radius + other.radius
        radaii2 == radaii * radaii
    IN  IF p = ref
        THEN [accel |-> NoAccel, collided_with |-> <<>>]
        ELSE IF dist2 >= radaii2
        THEN [accel |-> AccelOf(other.mass, VSub(other.position, body.position)),
              collided_with |-> <<>>]
        ELSE [accel |-> NoAccel, collided_with |-> <<body.entity>>]

\* a Leaf test that records the id of the body held by the Leaf
leaf_contribution_pushes_other(node, p, body, ref) ==
    LET other == node.body
        dist2 == distance_squared(other.position, body.position)
        radaii == body.radius + other.radius
        radaii2 == radaii * radaii
    IN  IF p = ref
        THEN [accel |-> NoAccel, collided_with |-> <<>>]
        ELSE IF dist2 > radaii2
        THEN [accel |-> AccelOf(other.mass, VSub(other.position, body.position)),
              collided_with |-> <<>>]
        ELSE [accel |-> NoAccel, collided_with |-> <<other.entity>>]

\* Process exterior node: the Leaf `node` at path p, seen from `body`, the
\* body stored in the Leaf at path ref.  The reference `body` points into the
\* tree, so std::ptr::eq(body, other) compares the two paths.
leaf_contribution(node, p, body, ref) ==
    LET other == node.body
    IN  IF p = ref
        THEN [accel |-> NoAccel, collided_with |-> <<>>]
        ELSE LET dist2 == distance_squared(other.position, body.position)
                 radaii == body.radius + other.radius
                 radaii2 == radaii * radaii
             IN  IF dist2 > radaii2
                 THEN [accel |-> AccelOf(other.mass,
                                         VSub(other.position, body.position)),
                       collided_with |-> <<>>]
                 ELSE [accel |-> NoAccel, collided_with |-> <<body.entity>>]

\* an approximation that records a collision entry next to its term
approx_contribution_with_entry(node, body) ==
    IF IsNaN3(node.center_of_mass)
    THEN [accel |-> NoAccel, collided_with |-> <<>>]
    ELSE [accel |-> AccelOf(node.mass, VSub(node.center_of_mass, body.position)),
          collided_with |-> <<body.entity>>]

\* process using this node approx center of mass
approx_contribution(node, body) ==
    IF IsNaN3(node.center_of_mass)
    THEN [accel |-> NoAccel, collided_with |-> <<>>]
    ELSE LET dist2 == distance_squared(node.center_of_mass, body.position)
             radaii == body.radius + body.radius
         IN  IF dist2 >= radaii
             THEN [accel |-> AccelOf(node.mass,
                                     VSub(node.center_of_mass, body.position)),
                   collided_with |-> <<>>]
             ELSE [accel |-> NoAccel, collided_with |-> <<>>]

Nothing == [accel |-> NoAccel, collided_with |-> <<>>, visits |-> EmptyBag]

\* The result of self.calculate_acceleration(body) for self the node at path
\* p and body the body stored in the Leaf at path ref, with THETA = thn / thd.
\* `visits` is the bag of the nodes the traversal was called on.
RECURSIVE calculate_acceleration(_, _, _, _, _)
RECURSIVE children_sum(_, _, _, _, _, _)
calculate_acceleration(t, p, ref, thn, thd) ==
    LET node == t[p]
        body == t[ref].body
        exterior == node.body # NoBody
        recurse == /\ ~exterior
                   /\ \/ contains(node.bounds, body.position)
                      \/ size_over_distance_ge(node, body.position, thn, thd)
        below == IF recurse /\ node.children
                 THEN children_sum(t, p, ref, thn, thd, 8)
                 ELSE Nothing
        r == IF exterior THEN leaf_contribution(node, p, body, ref)
             ELSE IF recurse THEN below
             ELSE approx_contribution(node, body)
    IN  [accel |-> r.accel,
         collided_with |-> r.collided_with,
         visits |-> SetToBag({p}) (+) below.visits]

\* the accumulators after the children 0 .. k-1
children_sum(t, p, ref, thn, thd, k) ==
    IF k = 0 THEN Nothing
    ELSE LET acc == children_sum(t, p, ref, thn, thd, k - 1)
             c == calculate_acceleration(t, Child(p, k - 1), ref, thn, thd)
         IN  [accel |-> acc.accel (+) c.accel,
              collided_with |-> acc.collided_with \o c.collided_with,
              visits |-> acc.visits (+) c.visits]

\* ------------------------------------------------------- BHTreeNodeIter
None == <<-1>>

RECURSIVE iter_next(_, _)
\* a next() that pushes the children 1..7 and forgets child 0
iter_next_skips_child_0(t, stack) ==
    IF stack = <<>> THEN [item |-> None, stack |-> <<>>]
    ELSE LET p == stack[Len(stack)]
             rest == SubSeq(stack, 1, Len(stack) - 1)
         IN  IF t[p].body # NoBody THEN [item |-> p, stack |-> rest]
             ELSE IF t[p].children
             THEN iter_next(t, rest \o [i \in 1..7 |-> Child(p, i)])
             ELSE iter_next(t, rest)

\* a next() that stops at a node without body or children instead of going on
iter_next_stops_at_empty(t, stack) ==
    IF stack = <<>> THEN [item |-> None, stack |-> <<>>]
    ELSE LET p == stack[Len(stack)]
             rest == SubSeq(stack, 1, Len(stack) - 1)
         IN  IF t[p].body # NoBody THEN [item |-> p, stack |-> rest]
             ELSE IF t[p].children
             THEN iter_next(t, rest \o [i \in 1..8 |-> Child(p, i - 1)])
             ELSE [item |-> None, stack |-> <<>>]

iter_next(t, stack) ==
    IF stack = <<>> THEN [item |-> None, stack |-> <<>>]
    ELSE LET p == stack[Len(stack)]
             rest == SubSeq(stack, 1, Len(stack) - 1)
         IN  IF t[p].body # NoBody THEN [item |-> p, stack |-> rest]
             ELSE IF t[p].children
             THEN iter_next(t, rest \o [i \in 1..8 |-> Child(p, i - 1)])
             ELSE iter_next(t, rest)

\* ------------------------------------------------------------ the step
\* bodies       the live bodies, in the order the query iterates them
\* pc           "start", "build", "eval", "done"; "overflow" when an insert
\*              recursed without end and the process was aborted
\* bounds       the box computed by BBox3::from
\* tree         the tree under construction, then the built tree
\* inserted     the number of bodies inserted so far
\* stack        the stack of the shared BHTreeNodeIter
\* job          per worker, the Leaf whose body it is evaluating, or None
\* results      the bag of the records collected so far (the order of the
\*              collected Vec is whatever the scheduling of the workers gives)
\* components   per entity, the Acceleration and Collisions written back
VARIABLES bodies, pc, bounds, tree, inserted, stack, job, results, components

vars == <<bodies, pc, bounds, tree, inserted, stack, job, results, components>>

Workers == 1..NumWorkers

BodySeqs ==
    UNION { { [i \in 1..n |-> NBody_new(i, pos[i], k[i].mass, k[i].radius)] :
              pos \in [1..n -> Positions], k \in [1..n -> Kinds] } :
            n \in 0..MaxBodies }

Init ==
    /\ bodies \in BodySeqs
    /\ pc = "start"
    /\ bounds = BBox3_new(ZERO, ZERO)
    /\ tree = <<>> :> BHTreeNode_new(BBox3_new(ZERO, ZERO))
    /\ inserted = 0
    /\ stack = <<>>
    /\ job = [w \in Workers |-> None]
    /\ results = EmptyBag
    /\ components = <<>>

\* a root box computed from the first body only
ComputeBounds_first_body_only ==
    /\ pc = "start"
    /\ LET b == BBox3_from([i \in 1..(IF bodies = <<>> THEN 0 ELSE 1) |->
                               bodies[i].position])
       IN  /\ bounds' = b
           /\ tree' = <<>> :> BHTreeNode_new(b)
    /\ pc' = "build"
    /\ UNCHANGED <<bodies, inserted, stack, job, results, components>>

\* let bounds = BBox3::from(..); let mut root = BHTreeNode::new(bounds)
ComputeBounds ==
    /\ pc = "start"
    /\ LET b == BBox3_from([i \in 1..Len(bodies) |-> bodies[i].position])
       IN  /\ bounds' = b
           /\ tree' = <<>> :> BHTreeNode_new(b)
    /\ pc' = "build"
    /\ UNCHANGED <<bodies, inserted, stack, job, results, components>>

\* one iteration of the loop of BHTreeNode::from: root.insert(NBody::new(..))
Insert ==
    /\ pc = "build"
    /\ inserted < Len(bodies)
    /\ LET body == bodies[inserted + 1]
       IN  IF insert_diverges(tree, <<>>, body)
           THEN /\ pc' = "overflow"
                /\ UNCHANGED <<tree, inserted>>
           ELSE /\ tree' = insert(tree, <<>>, body)
                /\ inserted' = inserted + 1
                /\ pc' = pc
    /\ UNCHANGED <<bodies, bounds, stack, job, results, components>>

\* BHTreeNode::from returns; collect_accelerations: self.iter().par_bridge()
StartEval ==
    /\ pc = "build"
    /\ inserted = Len(bodies)
    /\ pc' = "eval"
    /\ stack' = << <<>> >>
    /\ UNCHANGED <<bodies, bounds, tree, inserted, job, results, components>>

\* a worker takes the iterator's lock and calls next()
WorkerTake(w) ==
    /\ pc = "eval"
    /\ job[w] = None
    /\ stack # <<>>
    /\ LET r == iter_next(tree, stack)
       IN  /\ stack' = r.stack
           /\ job' = [job EXCEPT ![w] = r.item]
    /\ UNCHANGED <<bodies, pc, bounds, tree, inserted, results, components>>

\* a map closure whose collided_with vector is shared by the workers and
\* never cleared: a record carries the collisions of the records before it
WorkerFinish_shared_collisions(w, thn, thd) ==
    /\ pc = "eval"
    /\ job[w] # None
    /\ LET r == calculate_acceleration(tree, <<>>, job[w], thn, thd)
           earlier == {x.collisions : x \in BagToSet(results)}
           longest == IF earlier = {} THEN <<>>
                      ELSE CHOOSE c \in earlier : \A d \in earlier : Len(d) <= Len(c)
       IN  results' = results (+) SetToBag({
                [entity |-> tree[job[w]].body.entity,
                 accel |-> r.accel,
                 collisions |-> longest \o r.collided_with]})
    /\ job' = [job EXCEPT ![w] = None]
    /\ UNCHANGED <<bodies, pc, bounds, tree, inserted, stack, components>>

\* the map closure, and the push of its record into the collected Vec
WorkerFinish(w, thn, thd) ==
    /\ pc = "eval"
    /\ job[w] # None
    /\ LET r == calculate_acceleration(tree, <<>>, job[w], thn, thd)
       IN  results' = results (+) SetToBag({
                [entity |-> tree[job[w]].body.entity,
                 accel |-> r.accel,
                 collisions |-> r.collided_with]})
    /\ job' = [job EXCEPT ![w] = None]
    /\ UNCHANGED <<bodies, pc, bounds, tree, inserted, stack, components>>

\* collect() returns; the for_each of bh_gravity_acceleration_system writes
\* Acceleration and Collisions of every entity named by a record
Apply ==
    /\ pc = "eval"
    /\ stack = <<>>
    /\ \A w \in Workers : job[w] = None
    /\ pc' = "done"
    /\ components' =
         [e \in {r.entity : r \in BagToSet(results)} |->
            LET r == CHOOSE x \in BagToSet(results) : x.entity = e
            IN  [acceleration |-> r.accel, collisions |-> r.collisions]]
    /\ UNCHANGED <<bodies, bounds, tree, inserted, stack, job, results>>

NextTheta(thn, thd) ==
    \/ ComputeBounds
    \/ Insert
    \/ StartEval
    \/ \E w \in Workers : WorkerTake(w)
    \/ \E w \in Workers : WorkerFinish(w, thn, thd)
    \/ Apply

Next == NextTheta(THETA_NUM, THETA_DEN)

Spec == Init /\ [][Next]_vars

\* the step with the opening threshold THETA set to 0
NextTheta0 == NextTheta(0, 1)

SpecTheta0 == Init /\ [][NextTheta0]_vars

\* The same step on bodies that lie next to each other: the positions differ
\* by one representable value on an axis, or not at all.
NearPositions == { <<1, 0, 0>>, <<2, 0, 0>>, <<3, 0, 0>>, <<2, 1, 0>> }

NearBodySeqs ==
    UNION { { [i \in 1..n |-> NBody_new(i, pos[i], 1, 0)] :
              pos \in [1..n -> NearPositions] } :
            n \in 0..MaxBodies }

InitNear ==
    /\ bodies \in NearBodySeqs
    /\ pc = "start"
    /\ bounds = BBox3_new(ZERO, ZERO)
    /\ tree = <<>> :> BHTreeNode_new(BBox3_new(ZERO, ZERO))
    /\ inserted = 0
    /\ stack = <<>>
    /\ job = [w \in Workers |-> None]
    /\ results = EmptyBag
    /\ components = <<>>

SpecNear == InitNear /\ [][Next]_vars

\* ----------------------------------------------------- reading the state
IsPrefix(p, q) == Len(p) <= Len(q) /\ SubSeq(q, 1, Len(p)) = p

\* The tree is the result of `inserted` completed top-level inserts.  (The
\* tree of the states "eval" and "done" is the tree the last "build" state
\* has: no action changes it after StartEval.)
TreeBuilt == pc = "build"

Leaves(t) == {p \in DOMAIN t : t[p].body # NoBody}
LeavesBelow(t, p) == {q \in Leaves(t) : IsPrefix(p, q)}

RECURSIVE SetSum(_, _)
SetSum(S, f) ==
    IF S = {} THEN 0
    ELSE LET x == CHOOSE y \in S : TRUE IN f[x] + SetSum(S \ {x}, f)

InList(e, list) == \E i \in 1..Len(list) : list[i] = e

\* the record returned for entity e
RecordOf(e) == CHOOSE r \in BagToSet(results) : r.entity = e

\* ------------------------------------------------------------------- C1
\* C1 (as claimed): once the records are collected, two distinct bodies
\* closer than the sum of their radii each have the other's id in their own
\* collision list, and two bodies farther apart than the sum of their radii
\* do not have each other's id in their lists.
C1_MutualCollisionIds ==
    pc = "done" =>
      \A a, b \in 1..Len(bodies) :
        a # b =>
          LET dist2 == distance_squared(bodies[a].position, bodies[b].position)
              radii == bodies[a].radius + bodies[b].radius
          IN  /\ dist2 < radii * radii =>
                   /\ InList(a, RecordOf(b).collisions)
                   /\ InList(b, RecordOf(a).collisions)
              /\ dist2 > radii * radii =>
                   /\ ~InList(a, RecordOf(b).collisions)
                   /\ ~InList(b, RecordOf(a).collisions)

\* ------------------------------------------------------------------- C2
\* the bodies a fresh iter() yields, in order, until next() returns None
RECURSIVE IterRest(_, _)
IterRest(t, stk) ==
    LET r == iter_next(t, stk)
    IN  IF r.item = None THEN <<>>
        ELSE <<t[r.item].body>> \o IterRest(t, r.stack)

IterAll(t) == IterRest(t, << <<>> >>)

\* C2: after any number of completed inserts, iter() yields every inserted
\* body exactly once and nothing else.
C2_IterYieldsInsertedOnce ==
    TreeBuilt =>
      LET yielded == IterAll(tree)
      IN  /\ Len(yielded) = inserted
          /\ \A i \in 1..inserted :
               Cardinality({j \in 1..Len(yielded) : yielded[j] = bodies[i]}) = 1

\* three bodies are in the tree, one of them two levels down, and the
\* iterator does not yield them in insertion order
C2_Witness ==
    /\ pc = "build" /\ inserted = 3
    /\ \E p \in Leaves(tree) : Len(p) >= 2
    /\ IterAll(tree) # SubSeq(bodies, 1, 3)

\* ------------------------------------------------------------------- C3
Height(t, p) ==
    LET below == {Len(q) - Len(p) : q \in {x \in DOMAIN t : IsPrefix(p, x)}}
    IN  CHOOSE h \in below : \A k \in below : k <= h

MassBelow(t, p) ==
    SetSum(LeavesBelow(t, p), [q \in LeavesBelow(t, p) |-> t[q].body.mass])

\* the sum of mass * position over the bodies below p, on axis i
MomentBelow(t, p, i) ==
    SetSum(LeavesBelow(t, p),
           [q \in LeavesBelow(t, p) |-> t[q].body.mass * t[q].body.position[i]])

Abs(x) == IF x < 0 THEN -x ELSE x

LeafAggregates(t, p) ==
    t[p].body # NoBody =>
      /\ t[p].mass = t[p].body.mass
      /\ t[p].center_of_mass = t[p].body.position

Probes(b) ==
    LET c == center(b)
    IN  Positions \cup {b.pmin, b.pmax, c}
          \cup {<<c[1] + 1, c[2], c[3]>>, <<c[1], c[2] + 1, c[3]>>,
                <<c[1], c[2], c[3] + 1>>, <<c[1] + 1, c[2] + 1, c[3] + 1>>}

Bit(n, k) == (n \div k) % 2 = 1

\* C4: for every box of the tree and every point p it contains, the sub-box
\* of subdivide() at quadrant_index_for(p) contains p, and the index has bit 0
\* set iff p.x > center.x, bit 1 iff p.y > center.y, bit 2 iff p.z > center.z
\* (a point on a center plane has the bit clear).
C4_SubdivideIndexRoundTrip ==
    pc = "build" =>
      \A q \in DOMAIN tree :
        LET b == tree[q].bounds
            c == center(b)
        IN  \A p \in Probes(b) :
              contains(b, p) =>
                LET ix == quadrant_index_for(b, p)
                IN  /\ ix \in 0..7
                    /\ contains(subdivide(b)[ix], p)
                    /\ Bit(ix, 1) <=> p[1] > c[1]
                    /\ Bit(ix, 2) <=> p[2] > c[2]
                    /\ Bit(ix, 4) <=> p[3] > c[3]

\* a box below the root was subdivided and holds a body in the
\* child whose index has the y and z bits set and the x bit clear
C4_Witness ==
    /\ pc = "build"
    /\ \E q \in DOMAIN tree :
         /\ Len(q) >= 1
         /\ tree[q].children
         /\ \E l \in LeavesBelow(tree, q) :
              /\ quadrant_index_for(tree[q].bounds, tree[l].body.position) = 6
              /\ l = Child(q, 6)

\* ------------------------------------------------------------------- C5
MinOf(S) == CHOOSE m \in S : \A x \in S : m <= x
MaxOf(S) == CHOOSE m \in S : \A x \in S : x <= m
Coordinates(i) == {bodies[k].position[i] : k \in 1..Len(bodies)}

\* C5: for a non-empty body sequence BBox3::from returns the box whose pmin
\* is the componentwise minimum and whose pmax is the componentwise maximum
\* of the positions (so pmin <= pmax, every position is contained and no
\* smaller box contains them all), and encompass(p) of a point the box
\* contains leaves the box as it is.
C5_BoundsAreMinimal ==
    (pc = "build" /\ bodies # <<>>) =>
      /\ \A i \in 1..3 :
           /\ bounds.pmin[i] = MinOf(Coordinates(i))
           /\ bounds.pmax[i] = MaxOf(Coordinates(i))
           /\ bounds.pmin[i] <= bounds.pmax[i]
      /\ \A k \in 1..Len(bodies) : contains(bounds, bodies[k].position)
      /\ \A p \in Probes(bounds) :
           contains(bounds, p) => encompass(bounds, p) = bounds

\* three positions, the first neither the minimum nor the maximum on the x
\* axis, and an input point inside the box that is no body's position
C5_Witness ==
    /\ pc = "build" /\ Len(bodies) = 3
    /\ bounds.pmin[1] < bodies[1].position[1]
    /\ bodies[1].position[1] < bounds.pmax[1]
    /\ \E p \in Positions :
         /\ contains(bounds, p)
         /\ \A k \in 1..3 : bodies[k].position # p

\* ------------------------------------------------------------------- C6
ChildrenOf(t, p) == {q \in DOMAIN t : Len(q) = Len(p) + 1 /\ IsPrefix(p, q)}

C6_Shape ==
    TreeBuilt =>
      \A p \in DOMAIN tree :
        /\ ~(tree[p].body # NoBody /\ tree[p].children)
        /\ tree[p].children <=> Cardinality(LeavesBelow(tree, p)) >= 2
        /\ ChildrenOf(tree, p) =
             IF tree[p].children THEN {Child(p, i) : i \in 0..7} ELSE {}

C6_ChildrenStay ==
    \A p \in DOMAIN tree :
      tree[p].children =>
        /\ p \in DOMAIN tree'
        /\ tree'[p].children
        /\ tree'[p].body = NoBody

\* C6: after every completed insert no node has both a body and children, a
\* node has children iff two or more bodies were inserted into it (they are
\* the bodies below it), a node with children has exactly 8, and a node that
\* has children keeps them and never holds a body again.
C6_BodyXorChildren == [](C6_Shape) /\ [][C6_ChildrenStay]_vars

\* a third body went into a node that already had children, and a Leaf one
\* level down was split by it
C6_Witness ==
    /\ pc = "build" /\ inserted = 3
    /\ tree[<<>>].children
    /\ \E p \in DOMAIN tree : Len(p) = 1 /\ tree[p].children

\* ------------------------------------------------------------------- C7
RecordsFor(e) ==
    LET rs == {r \in BagToSet(results) : r.entity = e}
    IN  SetSum(rs, [r \in rs |-> CopiesIn(r, results)])

\* C7: the collected records are exactly one per inserted body, and with no
\* body at all the step neither fails nor stops before it is done, with no
\* record.
C7_OneRecordPerBody ==
    /\ pc = "done" =>
         /\ BagCardinality(results) = Len(bodies)
         /\ \A i \in 1..Len(bodies) : RecordsFor(bodies[i].entity) = 1
    /\ bodies = <<>> =>
         /\ pc # "overflow"
         /\ results = EmptyBag
         /\ pc = "done" \/ ENABLED Next

\* the records of three bodies are collected
C7_Witness ==
    /\ pc = "done" /\ Len(bodies) = 3
    /\ {r.entity : r \in BagToSet(results)} = {1, 2, 3}

\* ------------------------------------------------------------------- C8
\* the Leaf that holds entity e
LeafOf(e) == CHOOSE p \in Leaves(tree) : tree[p].body.entity = e

\* C8: the Leaf that holds the target body contributes no acceleration and
\* no collision entry to its traversal, and the record of a single body has
\* zero acceleration and no collision.
C8_SelfLeafContributesNothing ==
    pc = "done" =>
      /\ \A ref \in Leaves(tree) :
           LET r == calculate_acceleration(tree, ref, ref, THETA_NUM, THETA_DEN)
           IN  r.accel = NoAccel /\ r.collided_with = <<>>
      /\ Len(bodies) = 1 =>
           /\ RecordOf(1).accel = NoAccel
           /\ RecordOf(1).collisions = <<>>

\* in a tree of three bodies the traversal for a body reaches its own Leaf
C8_Witness ==
    /\ pc = "done" /\ Len(bodies) = 3
    /\ \E ref \in Leaves(tree) :
         CopiesIn(ref, calculate_acceleration(tree, <<>>, ref,
                                              THETA_NUM, THETA_DEN).visits) = 1

\* ------------------------------------------------------------------- C9
\* the record of the body in the Leaf at ref, evaluated alone
RecordAlone(ref) ==
    LET r == calculate_acceleration(tree, <<>>, ref, THETA_NUM, THETA_DEN)
    IN  [entity |-> tree[ref].body.entity, accel |-> r.accel,
         collisions |-> r.collided_with]

C9_RecordsAreThoseOfTheTree ==
    pc = "done" =>
      /\ BagToSet(results) = {RecordAlone(ref) : ref \in Leaves(tree)}
      /\ \A r \in BagToSet(results) : CopiesIn(r, results) = 1

C9_BuildThenEvaluate ==
    /\ (tree' # tree \/ inserted' # inserted) =>
         /\ pc \in {"start", "build"}
         /\ stack = <<>> /\ results = EmptyBag
         /\ \A w \in Workers : job[w] = None
    /\ (stack' # stack \/ job' # job \/ results' # results) =>
         /\ inserted = Len(bodies)
         /\ tree' = tree /\ inserted' = inserted
    /\ (job' # job \/ results' # results) => pc = "eval"

\* C9: every insert happens before the first evaluation and no node changes
\* while evaluations run; whatever the interleaving of the workers, the
\* records collected are the records of each body evaluated alone on the
\* built tree.
C9_ScheduleIndependent ==
    [](C9_RecordsAreThoseOfTheTree) /\ [][C9_BuildThenEvaluate]_vars

\* two workers evaluate two bodies at the same time while a third body is
\* still to be taken from the iterator
C9_Witness ==
    /\ pc = "eval" /\ Len(bodies) = 3
    /\ job[1] # None /\ job[2] # None
    /\ stack # <<>>

\* ------------------------------------------------------------------ C10
RECURSIVE BagSum(_, _)
BagSum(S, f) ==
    IF S = {} THEN EmptyBag
    ELSE LET x == CHOOSE y \in S : TRUE IN f[x] (+) BagSum(S \ {x}, f)

\* the direct pairwise sum for body i: every other body o farther than the
\* sum of the radii contributes G * mass(o) / d^2 from i toward o
DirectSum(i) ==
    LET others ==
          {o \in 1..Len(bodies) :
             /\ o # i
             /\ distance_squared(bodies[o].position, bodies[i].position)
                  > (bodies[i].radius + bodies[o].radius)
                    * (bodies[i].radius + bodies[o].radius)}
    IN  BagSum(others,
               [o \in others |->
                  AccelOf(bodies[o].mass,
                          VSub(bodies[o].position, bodies[i].position))])

\* C10: with THETA = 0 the traversal for a body is called on every node of
\* the tree exactly once (it opens every node with children and visits
\* every Leaf once) and the acceleration returned is the direct pairwise sum.
C10_Theta0IsDirectSum ==
    pc = "done" =>
      \A i \in 1..Len(bodies) :
        /\ RecordOf(i).accel = DirectSum(i)
        /\ LET v == calculate_acceleration(tree, <<>>, LeafOf(i), 0, 1).visits
           IN  \A p \in DOMAIN tree : CopiesIn(p, v) = 1

\* three bodies, one of which would have been given a point-mass
\* approximation of the two others with THETA = 0.5, and two of which touch
C10_Witness ==
    /\ pc = "done" /\ Len(bodies) = 3
    /\ \E i \in 1..3 :
         calculate_acceleration(tree, <<>>, LeafOf(i), THETA_NUM, THETA_DEN).accel
           # RecordOf(i).accel
    /\ \E i, o \in 1..3 : i # o /\ RecordOf(i).collisions # <<>>

\* ------------------------------------------------------------------- C11
\* the next body to insert has the position of a body already in the tree
Coincides ==
    \E i \in 1..inserted : bodies[i].position = bodies[inserted + 1].position

\* C11 (as claimed): the insert of the next body fails to return exactly
\* when its position equals the position of a body inserted before it; for
\* pairwise distinct positions every insert returns.
C11_TerminatesIffDistinct ==
    (pc = "build" /\ inserted < Len(bodies)) =>
        (insert_diverges(tree, <<>>, bodies[inserted + 1]) <=> Coincides)

\* C11, the half that holds: a body at the position of a body held by a
\* Leaf is never inserted, the split goes on without end.
C11_CoincidentNeverReturns ==
    (pc = "build" /\ inserted < Len(bodies) /\ Coincides) =>
        insert_diverges(tree, <<>>, bodies[inserted + 1])

\* a coincident body is about to be inserted into a tree of two bodies
C11_Witness ==
    /\ pc = "build" /\ inserted = 2 /\ Len(bodies) = 3
    /\ Coincides

\* ------------------------------------------------------------------- C12
\* C12: on the built tree, the traversal for the body b of a Leaf, called on
\* a Leaf that holds another body o, returns either the one acceleration
\* term of mass(o) along o - b and no collision entry (when the squared
\* distance exceeds the squared sum of the radii), or no acceleration and
\* the one collision entry b (otherwise), never both; and every entry of the
\* collision list of a collected record is the id of the record's own body.
C12_LeafTermXorOwnId ==
    /\ pc = "eval" =>
          \A ref \in Leaves(tree) : \A p \in Leaves(tree) \ {ref} :
              LET b == tree[ref].body
                  o == tree[p].body
                  c == calculate_acceleration(tree, p, ref, THETA_NUM, THETA_DEN)
                  d2 == distance_squared(o.position, b.position)
                  rr == b.radius + o.radius
              IN  IF d2 > rr * rr
                  THEN /\ c.accel = SetToBag({Term(o.mass,
                                                   VSub(o.position, b.position))})
                       /\ c.collided_with = <<>>
                  ELSE /\ c.accel = EmptyBag
                       /\ c.collided_with = <<b.entity>>
    /\ \A r \in BagToSet(results) : \A k \in 1..Len(r.collisions) :
          r.collisions[k] = r.entity

\* a collected record with a collision entry and an acceleration term: its
\* traversal reached a Leaf within the sum of the radii and a Leaf beyond it
C12_Witness ==
    \E r \in BagToSet(results) : r.collisions # <<>> /\ r.accel # EmptyBag

\* ------------------------------------------------------------------- C13
\* the tree is built and the evaluation is about to start
TreeReady == pc = "eval" /\ stack = << <<>> >>

\* the test that opens a node: the position is inside the box, or
\* size / distance >= THETA
Opens(node, body) ==
    \/ contains(node.bounds, body.position)
    \/ size_over_distance_ge(node, body.position, THETA_NUM, THETA_DEN)

\* the traversal from the root for the body of the Leaf ref
FromRoot(ref) == calculate_acceleration(tree, <<>>, ref, THETA_NUM, THETA_DEN)

\* the nodes without a direct body that the traversal for ref is called on
ReachedBodiless(ref) ==
    {p \in BagToSet(FromRoot(ref).visits) : tree[p].body = NoBody}

\* the traversal called on the node at p visits each of its 8 children once
RecursesIntoAll8(p, ref) ==
    LET c == calculate_acceleration(tree, p, ref, THETA_NUM, THETA_DEN)
    IN  \A i \in 0..7 : CopiesIn(Child(p, i), c.visits) = 1

\* the traversal called on the node at p visits no descendant, adds at most
\* the one term of the node's mass toward its center of mass, and no entry
ApproximatesOrNothing(p, ref) ==
    LET c == calculate_acceleration(tree, p, ref, THETA_NUM, THETA_DEN)
        node == tree[p]
        b == tree[ref].body
    IN  /\ c.visits = SetToBag({p})
        /\ c.collided_with = <<>>
        /\ \/ c.accel = EmptyBag
           \/ /\ ~IsNaN3(node.center_of_mass)
              /\ c.accel = SetToBag({Term(node.mass,
                                 VSub(node.center_of_mass, b.position))})

\* every collision entry of the traversal for ref comes from a visited Leaf
\* that holds another body
EntriesComeFromLeaves(ref) ==
    LET r == FromRoot(ref)
        b == tree[ref].body
        near == {q \in Leaves(tree) \ {ref} :
                    LET rr == b.radius + tree[q].body.radius
                    IN  distance_squared(tree[q].body.position, b.position)
                            <= rr * rr}
    IN  Len(r.collided_with) = SetSum(near, [q \in near |-> CopiesIn(q, r.visits)])

\* C13 (as claimed): a node without a direct body that the traversal for a
\* body reaches is recursed into, all 8 children, if and only if the body's
\* position is inside the node's box or size / distance >= THETA; otherwise
\* no descendant is visited, at most one point-mass term is added and no
\* collision entry.
C13_BodilessRecursesIffOpens ==
    TreeReady =>
        \A ref \in Leaves(tree) :
            /\ \A p \in ReachedBodiless(ref) :
                  /\ RecursesIntoAll8(p, ref) <=> Opens(tree[p], tree[ref].body)
                  /\ ~Opens(tree[p], tree[ref].body) => ApproximatesOrNothing(p, ref)
            /\ EntriesComeFromLeaves(ref)

\* C13 (amended): a reached node that has children is recursed into, all 8
\* children, if and only if the test opens it; a reached node with neither
\* body nor children, and a node with children that the test does not open,
\* have no descendant visited, add at most the one point-mass term and no
\* collision entry; every collision entry comes from a Leaf holding another
\* body.
C13_InternalRecursesIffOpens ==
    TreeReady =>
        \A ref \in Leaves(tree) :
            /\ \A p \in ReachedBodiless(ref) :
                  /\ tree[p].children =>
                        (RecursesIntoAll8(p, ref) <=> Opens(tree[p], tree[ref].body))
                  /\ (~tree[p].children \/ ~Opens(tree[p], tree[ref].body)) =>
                        ApproximatesOrNothing(p, ref)
            /\ EntriesComeFromLeaves(ref)

\* one traversal reaches a node with children that it opens, a node with
\* children that it approximates by a term, and an empty node that the test
\* opens
C13_Witness ==
    /\ TreeReady
    /\ \E ref \in Leaves(tree) :
          /\ \E p \in ReachedBodiless(ref) :
                tree[p].children /\ Opens(tree[p], tree[ref].body)
          /\ \E p \in ReachedBodiless(ref) :
                /\ tree[p].children /\ ~Opens(tree[p], tree[ref].body)
                /\ calculate_acceleration(tree, p, ref, THETA_NUM, THETA_DEN).accel
                       # EmptyBag
          /\ \E p \in ReachedBodiless(ref) :
                ~tree[p].children /\ Opens(tree[p], tree[ref].body)

\* ------------------------------------------------------------------- C14
\* the nodes on the path from the root to the Leaf ref, the Leaf included
PathTo(ref) == {p \in DOMAIN tree : IsPrefix(p, ref)}

\* C14: after every completed insert the position of every stored body lies
\* inside the bounds of its Leaf and of every ancestor of the Leaf; on the
\* built tree the traversal for a stored body is called once on every node of
\* the path to its own Leaf and opens every ancestor (all 8 children), and no
\* node that it approximates by a point mass is on that path, so the body's
\* own mass is in no approximation applied to it.
C14_OwnPathIsOpened ==
    /\ TreeBuilt =>
          \A ref \in Leaves(tree) : \A p \in PathTo(ref) :
              contains(tree[p].bounds, tree[ref].body.position)
    /\ TreeReady =>
          \A ref \in Leaves(tree) :
              /\ \A p \in PathTo(ref) :
                    /\ CopiesIn(p, FromRoot(ref).visits) = 1
                    /\ p # ref =>
                          /\ tree[p].children
                          /\ Opens(tree[p], tree[ref].body)
                          /\ RecursesIntoAll8(p, ref)
              /\ \A p \in ReachedBodiless(ref) :
                    ~Opens(tree[p], tree[ref].body) => ~IsPrefix(p, ref)

\* a tree with a body two levels down and a body whose traversal
\* approximates another subtree by a point mass
C14_Witness ==
    /\ TreeReady
    /\ \E ref \in Leaves(tree) : Len(ref) >= 2
    /\ \E ref \in Leaves(tree) :
          /\ Len(ref) >= 1
          /\ \E p \in ReachedBodiless(ref) :
                /\ tree[p].children /\ ~Opens(tree[p], tree[ref].body)
                /\ calculate_acceleration(tree, p, ref, THETA_NUM, THETA_DEN).accel
                       # EmptyBag
====
